---- MODULE Spec2Model ----
(***************************************************************************)
(* A model of taskmaster-pro's task store (services/taskService) and of    *)
(* the Dashboard's derived metrics (components/Dashboard.tsx).             *)
(*                                                                         *)
(* Representation.                                                         *)
(*  - A JavaScript string is the sequence of its characters, each a        *)
(*    one-character TLA+ string: "23:30" is <<"2","3",":","3","0">>.       *)
(*  - undefined is the one-element sequence Undefined, whose element is    *)
(*    no character.                                                        *)
(*  - Every other value but a number is a sequence too: an array is the    *)
(*    sequence of its items, an enum member a one-element sequence.        *)
(*  - A JavaScript object is a function from its own keys to values; a     *)
(*    key that is missing reads as undefined (Get).                        *)
(*  - A time value (Date.now(), Date's internal value) is counted in       *)
(*    minutes since 1970-01-01T00:00Z instead of milliseconds.             *)
(*  - The host time zone is the record tz: offset `before` (minutes east   *)
(*    of UTC) up to the UTC instant `at`, offset `after` from then on.     *)
(***************************************************************************)
EXTENDS Integers, Sequences, FiniteSets, TLC

VARIABLES
  storage,        \* localStorage's item under STORAGE_KEY
  clock,          \* the host clock: what Date.now() / new Date() reads
  tz,             \* the host time zone
  issued,         \* the ids crypto.randomUUID() has produced so far
  last,           \* the last call: its input, outcome and the store before it
  appTasks,       \* the App's `tasks` state
  loading,        \* the App's `loading` state
  tasks,          \* the Dashboard's `tasks` prop
  kpis,           \* the Dashboard's kpis memo
  lineChartData   \* the Dashboard's lineChartData memo

vars == <<storage, clock, tz, issued, last, appTasks, loading, tasks, kpis, lineChartData>>

-----------------------------------------------------------------------------
(* Bounds of the model.                                                    *)

MaxTasks == 2        \* longest stored collection
MaxIds == 3          \* size of the id pool randomUUID draws from
MaxTicks == 1        \* how far the clock advances in the store's runs
MaxDashTasks == 2    \* longest collection handed to the Dashboard
MaxNowSteps == 7     \* number of steps of NowStep the Dashboard's `now` ranges over

-----------------------------------------------------------------------------
(* JavaScript strings.                                                     *)

Undefined == <<"undefined">>

DigitChars == <<"0", "1", "2", "3", "4", "5", "6", "7", "8", "9">>

Digit(n) == DigitChars[n + 1]

DigitValue(c) == CHOOSE n \in 0..9 : DigitChars[n + 1] = c

\* The UTF-16 code unit of a character, which is what < on strings compares.
CharCode(c) == IF c = "-" THEN 45 ELSE IF c = ":" THEN 58 ELSE 48 + DigitValue(c)

\* a < b on strings: the first differing code unit decides, a proper prefix is less.
RECURSIVE StrLess(_, _)
StrLess(a, b) ==
  IF b = <<>> THEN FALSE
  ELSE IF a = <<>> THEN TRUE
  ELSE IF Head(a) # Head(b) THEN CharCode(Head(a)) < CharCode(Head(b))
  ELSE StrLess(Tail(a), Tail(b))

\* s.split(sep) for a one-character separator.
RECURSIVE Split(_, _)
Split(s, sep) ==
  IF \A i \in 1..Len(s) : s[i] # sep THEN <<s>>
  ELSE LET k == CHOOSE i \in 1..Len(s) : s[i] = sep /\ \A j \in 1..(i - 1) : s[j] # sep
       IN <<SubSeq(s, 1, k - 1)>> \o Split(SubSeq(s, k + 1, Len(s)), sep)

\* Number(s) for a string of decimal digits; Number("") is 0.
RECURSIVE Number(_)
Number(s) ==
  IF s = <<>> THEN 0
  ELSE 10 * Number(SubSeq(s, 1, Len(s) - 1)) + DigitValue(s[Len(s)])

\* n.toString() for an integer n >= 0.
RECURSIVE NumToString(_)
NumToString(n) ==
  IF n < 10 THEN <<Digit(n)>> ELSE NumToString(n \div 10) \o <<Digit(n % 10)>>

\* s.padStart(width, '0').
RECURSIVE PadStart(_, _)
PadStart(s, width) == IF Len(s) >= width THEN s ELSE PadStart(<<"0">> \o s, width)

-----------------------------------------------------------------------------
(* JavaScript Date: the calendar, the time zone and the setters.           *)

MinutesPerHour == 60
MinutesPerDay == 24 * MinutesPerHour

\* Day number (days since 1970-01-01) of the civil date y-m-d, m in 1..12.
DaysFromCivil(y, m, d) ==
  LET yy == IF m <= 2 THEN y - 1 ELSE y
      era == yy \div 400
      yoe == yy - era * 400
      mp == IF m > 2 THEN m - 3 ELSE m + 9
      doy == (153 * mp + 2) \div 5 + d - 1
      doe == yoe * 365 + yoe \div 4 - yoe \div 100 + doy
  IN era * 146097 + doe - 719468

\* The civil date <<y, m, d>> of a day number.
CivilFromDays(z) ==
  LET zz == z + 719468
      era == zz \div 146097
      doe == zz - era * 146097
      yoe == (doe - doe \div 1460 + doe \div 36524 - doe \div 146096) \div 365
      doy == doe - (365 * yoe + yoe \div 4 - yoe \div 100)
      mp == (5 * doy + 2) \div 153
      d == doy - (153 * mp + 2) \div 5 + 1
      m == IF mp < 10 THEN mp + 3 ELSE mp - 9
      y == yoe + era * 400
  IN <<IF m <= 2 THEN y + 1 ELSE y, m, d>>

Day(t) == t \div MinutesPerDay
TimeWithinDay(t) == t % MinutesPerDay
WeekDay(t) == (Day(t) + 4) % 7

\* ECMAScript MakeDay(year, month, date): month is 0-based and may overflow,
\* date may be zero, negative or beyond the month's end.
MakeDay(year, month, date) ==
  DaysFromCivil(year + month \div 12, (month % 12) + 1, 1) + date - 1

MakeDate(day, time) == day * MinutesPerDay + time

\* ECMAScript LocalTime(t): the instant t as host-local time.
LocalTime(t) == t + (IF t < tz.at THEN tz.before ELSE tz.after)

\* ECMAScript UTC(t): a local time as an instant. A local time that the
\* transition skips or repeats is read with the offset before the transition.
UTC(tlocal) ==
  IF tlocal - tz.before < tz.at THEN tlocal - tz.before
  ELSE IF tlocal - tz.after >= tz.at THEN tlocal - tz.after
  ELSE tlocal - tz.before

getFullYear(t) == CivilFromDays(Day(LocalTime(t)))[1]
getMonth(t) == CivilFromDays(Day(LocalTime(t)))[2] - 1
getDate(t) == CivilFromDays(Day(LocalTime(t)))[3]
getDay(t) == WeekDay(LocalTime(t))
getHours(t) == TimeWithinDay(LocalTime(t)) \div MinutesPerHour
getMinutes(t) == TimeWithinDay(LocalTime(t)) % MinutesPerHour

\* date.setDate(d): the local day is replaced, the local time of day kept.
setDate(t, d) ==
  UTC(MakeDate(MakeDay(getFullYear(t), getMonth(t), d), TimeWithinDay(LocalTime(t))))

\* date.setHours(h): the local hour is replaced, the minutes kept.
setHours(t, h) ==
  UTC(MakeDate(Day(LocalTime(t)), h * MinutesPerHour + getMinutes(t)))

\* date.setHours(h, m, s, ms), at this model's resolution of one minute.
setHoursMinutes(t, h, m) ==
  UTC(MakeDate(Day(LocalTime(t)), h * MinutesPerHour + m))

\* date.setMinutes(m): the local minutes are replaced (m may exceed 59).
setMinutes(t, m) ==
  UTC(MakeDate(Day(LocalTime(t)), getHours(t) * MinutesPerHour + m))

\* new Date(y, monthIndex, d): local midnight of that day. A year from 0 to
\* 99 is read as 1900 + y.
NewLocalDate(y, monthIndex, d) ==
  LET yr == IF 0 <= y /\ y <= 99 THEN 1900 + y ELSE y
  IN UTC(MakeDate(MakeDay(yr, monthIndex, d), 0))

\* "YYYY-MM-DD" for a civil date.
FormatYMD(ymd) ==
  PadStart(NumToString(ymd[1]), 4) \o <<"-">> \o PadStart(NumToString(ymd[2]), 2)
    \o <<"-">> \o PadStart(NumToString(ymd[3]), 2)

\* date.toISOString().split('T')[0]: the UTC calendar date of the instant.
ISODate(t) == FormatYMD(CivilFromDays(Day(t)))

\* The host-local calendar date of the instant, as "YYYY-MM-DD".
LocalDate(t) == FormatYMD(CivilFromDays(Day(LocalTime(t))))

\* "HH:MM" built from an hour and a minute.
FormatHM(h, m) == PadStart(NumToString(h), 2) \o <<":">> \o PadStart(NumToString(m), 2)

\* The time zones the host may be in. Instants are written by their UTC date.
Instant(y, m, d, hh, mm) == MakeDate(DaysFromCivil(y, m, d), hh * MinutesPerHour + mm)

TzUTC == [name |-> "UTC", before |-> 0, at |-> 0, after |-> 0]
\* America/New_York, spring 2026: 02:00 EST -> 03:00 EDT on Sunday 8 March.
TzNewYork ==
  [name |-> "America/New_York", before |-> -5 * MinutesPerHour,
   at |-> Instant(2026, 3, 8, 7, 0), after |-> -4 * MinutesPerHour]
\* America/Havana, spring 2026: 00:00 CST -> 01:00 CDT on Sunday 8 March.
TzHavana ==
  [name |-> "America/Havana", before |-> -5 * MinutesPerHour,
   at |-> Instant(2026, 3, 8, 5, 0), after |-> -4 * MinutesPerHour]
\* Europe/Berlin, spring 2026: 02:00 CET -> 03:00 CEST on Sunday 29 March.
TzBerlin ==
  [name |-> "Europe/Berlin", before |-> MinutesPerHour,
   at |-> Instant(2026, 3, 29, 1, 0), after |-> 2 * MinutesPerHour]

TimeZones == {TzUTC, TzNewYork, TzHavana, TzBerlin}

-----------------------------------------------------------------------------
(* JavaScript objects and JSON.                                            *)

\* The members of the enum TaskStatus: each a one-element sequence
\* holding its name, so that it compares with strings and with undefined.
NOT_STARTED == <<"NOT_STARTED">>
IN_PROGRESS == <<"IN_PROGRESS">>
COMPLETED == <<"COMPLETED">>

\* The fields that hold numbers: the two timestamps, set from Date.now().
NumberFields == {"createdAt", "updatedAt"}

\* o[k] when the value may be undefined: a missing key reads as undefined.
Get(o, k) == IF k \in DOMAIN o THEN o[k] ELSE Undefined

\* Whether the own property k of o holds undefined.
HoldsUndefined(o, k) == k \notin NumberFields /\ o[k] = Undefined

\* { ...a, ...b }: the keys of both, b's values winning.
Spread(a, b) ==
  [k \in DOMAIN a \cup DOMAIN b |-> IF k \in DOMAIN b THEN b[k] ELSE a[k]]

\* The JavaScript values a parsed document can be, as far as the store tells
\* them apart: an array (with its items), or something that is no array.
Array(items) == [type |-> "array", items |-> items]
JsNull == [type |-> "null"]
JsNumber == [type |-> "number"]
JsObject == [type |-> "object"]

\* What JSON.stringify writes for one object: members whose value is undefined
\* are left out.
StringifyObject(o) == [k \in {f \in DOMAIN o : ~HoldsUndefined(o, f)} |-> o[k]]

\* JSON.stringify(tasks) for an array of objects: the text, by its content.
JSONStringify(items) ==
  [syntax |-> "json",
   value |-> Array([i \in 1..Len(items) |-> StringifyObject(items[i])])]

\* The values localStorage can hold under STORAGE_KEY: no item, the empty
\* string, a text that is no JSON, or a JSON text.
NoItem == [syntax |-> "absent"]
EmptyText == [syntax |-> "empty"]
MalformedText == [syntax |-> "malformed"]
JsonText(v) == [syntax |-> "json", value |-> v]

\* The errors the calls raise.
SyntaxError == "SyntaxError"
TypeError == "TypeError"
NotFoundError == "Error: Task not found"

\* JSON.parse(text): the parsed value, or a SyntaxError.
JSONParse(text) ==
  IF text.syntax = "json" THEN [outcome |-> "return", value |-> text.value]
  ELSE [outcome |-> "throw", value |-> SyntaxError]

-----------------------------------------------------------------------------
(* taskService.                                                            *)

\* The ids crypto.randomUUID() can return: version-4 UUIDs are taken never to
\* repeat, so a call returns an id that no earlier call has returned.
UUID(n) == <<"u", "u", "i", "d", "-", Digit(n)>>
IdPool == {UUID(n) : n \in 1..MaxIds}
RandomUUID(used) == IdPool \ used

\* getAllTasks(): `data ? JSON.parse(data) : []`, and [] when that throws.
getAllTasks(st) ==
  IF st.syntax \in {"absent", "empty"} THEN Array(<<>>)
  ELSE IF JSONParse(st).outcome = "throw" THEN Array(<<>>)
  ELSE JSONParse(st).value

\* saveAllTasks(tasks): the item written.
saveAllTasks(items) == JSONStringify(items)

\* calculateDefaultEndTime(startTime), with `new Date()` reading `now`.
calculateDefaultEndTime(startTime, now) ==
  IF startTime = Undefined \/ startTime = <<>> THEN <<"1", "0", ":", "0", "0">>
  ELSE LET parts == Split(startTime, ":")
           h == Number(parts[1])
           m == Number(parts[2])
           date == setMinutes(setHours(now, h), m + MinutesPerHour)
       IN FormatHM(getHours(date), getMinutes(date))

\* The record createTask builds: the input's fields, the defaults, the id and
\* the two timestamps.
NewTask(task, uuid, newDate, now, now2) ==
  Spread(task,
    [endTime |-> IF Get(task, "endTime") \in {Undefined, <<>>}
                 THEN calculateDefaultEndTime(Get(task, "startTime"), newDate)
                 ELSE task.endTime,
     subtasks |-> IF Get(task, "subtasks") = Undefined THEN <<>> ELSE task.subtasks,
     id |-> uuid,
     createdAt |-> now,
     updatedAt |-> now2])

\* A call's result: whether it returned or threw, the value returned or
\* thrown, the item under STORAGE_KEY afterwards, and whether setItem ran.
Returned(v, st) == [outcome |-> "return", value |-> v, storage |-> st, wrote |-> TRUE]
Threw(e, st) == [outcome |-> "throw", value |-> e, storage |-> st, wrote |-> FALSE]

\* createTask with the id taken from the collection's length instead of
\* crypto.randomUUID().
createTaskCountedId(st, task, uuid, newDate, now, now2) ==
  LET loaded == getAllTasks(st)
      counted == NewTask(task, UUID(Len(loaded.items) + 1), newDate, now, now2)
  IN IF loaded.type # "array" THEN Threw(TypeError, st)
     ELSE Returned(counted, saveAllTasks(Append(loaded.items, counted)))

\* createTask with tasks.unshift(newTask) for tasks.push(newTask).
createTaskUnshift(st, task, uuid, newDate, now, now2) ==
  LET loaded == getAllTasks(st)
  IN IF loaded.type # "array" THEN Threw(TypeError, st)
     ELSE Returned(NewTask(task, uuid, newDate, now, now2),
                   saveAllTasks(<<NewTask(task, uuid, newDate, now, now2)>> \o loaded.items))

\* createTask(task): `newDate` is what `new Date()` reads in
\* calculateDefaultEndTime, `now` and `now2` are the two readings of Date.now()
\* that follow it.
createTask(st, task, uuid, newDate, now, now2) ==
  LET loaded == getAllTasks(st)
  IN IF loaded.type # "array" THEN Threw(TypeError, st)   \* tasks.push is not a function
     ELSE Returned(NewTask(task, uuid, newDate, now, now2),
                   saveAllTasks(Append(loaded.items, NewTask(task, uuid, newDate, now, now2))))

\* tasks.findIndex(t => t.id === id): 0 here for JavaScript's -1.
FindIndex(items, id) ==
  IF \E i \in 1..Len(items) : Get(items[i], "id") = id
  THEN CHOOSE i \in 1..Len(items) :
         /\ Get(items[i], "id") = id
         /\ \A j \in 1..(i - 1) : Get(items[j], "id") # id
  ELSE 0

\* updateTask that inserts the record when no stored record has its id.
updateTaskUpsert(st, updatedTask, now) ==
  LET loaded == getAllTasks(st)
      saved == Spread(updatedTask, [updatedAt |-> now])
  IN IF loaded.type # "array" THEN Threw(TypeError, st)
     ELSE IF FindIndex(loaded.items, updatedTask.id) # 0
          THEN Returned(saved, saveAllTasks([loaded.items EXCEPT
                                  ![FindIndex(loaded.items, updatedTask.id)] = saved]))
          ELSE Returned(saved, saveAllTasks(Append(loaded.items, saved)))

\* updateTask(updatedTask), with Date.now() reading `now`.
updateTask(st, updatedTask, now) ==
  LET loaded == getAllTasks(st)
  IN IF loaded.type # "array" THEN Threw(TypeError, st)   \* tasks.findIndex is not a function
     ELSE LET index == FindIndex(loaded.items, updatedTask.id)
              saved == Spread(updatedTask, [updatedAt |-> now])
          IN IF index # 0
             THEN Returned(saved, saveAllTasks([loaded.items EXCEPT ![index] = saved]))
             ELSE Threw(NotFoundError, st)

\* tasks.filter(t => t.id !== taskId)
RECURSIVE FilterOutId(_, _)
FilterOutId(items, taskId) ==
  IF items = <<>> THEN <<>>
  ELSE IF Get(Head(items), "id") # taskId
       THEN <<Head(items)>> \o FilterOutId(Tail(items), taskId)
       ELSE FilterOutId(Tail(items), taskId)

\* deleteTask that raises NotFound, as updateTask does, when no record has the id.
deleteTaskStrict(st, taskId) ==
  LET loaded == getAllTasks(st)
  IN IF loaded.type # "array" THEN Threw(TypeError, st)
     ELSE IF FindIndex(loaded.items, taskId) = 0 THEN Threw(NotFoundError, st)
     ELSE Returned(Undefined, saveAllTasks(FilterOutId(loaded.items, taskId)))

\* deleteTask(taskId)
deleteTask(st, taskId) ==
  LET loaded == getAllTasks(st)
  IN IF loaded.type # "array" THEN Threw(TypeError, st)   \* tasks.filter is not a function
     ELSE Returned(Undefined, saveAllTasks(FilterOutId(loaded.items, taskId)))

-----------------------------------------------------------------------------
(* The store's state machine: the calls a caller can make, and the clock.  *)

\* The instant the store's runs start at: 8 March 2026, 16:00 UTC.
StartClock == Instant(2026, 3, 8, 16, 0)
ClockValues == StartClock..(StartClock + MaxTicks)

TheDate == FormatYMD(<<2026, 3, 8>>)

\* Inputs of createTask: with and without endTime, subtasks and startTime, with
\* a key that holds undefined, and with a start time late in the day.
CreateInputs ==
  { [title |-> <<"a">>, date |-> TheDate, status |-> NOT_STARTED,
     startTime |-> FormatHM(23, 30)],
    [title |-> <<"b">>, date |-> TheDate, status |-> NOT_STARTED,
     endTime |-> <<>>, subtasks |-> <<>>, description |-> Undefined],
    [title |-> <<"c">>, date |-> TheDate, status |-> IN_PROGRESS,
     startTime |-> FormatHM(9, 15), endTime |-> FormatHM(11, 0),
     subtasks |-> <<"s1">>] }

\* Inputs of updateTask: any Task value a caller can build (any id of the
\* pool, any createdAt), and the edits of a stored record the UI makes.
UpdateInputs(st) ==
  { [id |-> i, title |-> <<"e">>, date |-> TheDate, status |-> COMPLETED,
     startTime |-> FormatHM(9, 15), endTime |-> FormatHM(11, 0),
     subtasks |-> <<>>, createdAt |-> c, updatedAt |-> StartClock]
      : i \in IdPool, c \in {StartClock, StartClock + MaxTicks + 1} }
  \cup
  (IF getAllTasks(st).type = "array"
   THEN { Spread(getAllTasks(st).items[i], [status |-> COMPLETED])
            : i \in 1..Len(getAllTasks(st).items) }
   ELSE {})

\* The time zones the store's runs are made in.
StoreTimeZones == {TzUTC, TzNewYork}

NoCall == [op |-> "none", arg |-> Undefined, outcome |-> "return",
           value |-> Undefined, wrote |-> FALSE, pre |-> NoItem]

Call(op, arg, r, pre) ==
  [op |-> op, arg |-> arg, outcome |-> r.outcome, value |-> r.value,
   wrote |-> r.wrote, pre |-> pre]

\* The memos before the Dashboard has rendered.
NotRendered == [rendered |-> FALSE]
DashboardIdle == /\ tasks = <<>> /\ kpis = NotRendered /\ lineChartData = <<>>

\* The App before its mount effect has run: useState([]) and useState(true).
AppIdle == /\ appTasks = Array(<<>>) /\ loading = TRUE

Init ==
  /\ storage = NoItem
  /\ clock = StartClock
  /\ tz \in StoreTimeZones
  /\ issued = {}
  /\ last = NoCall
  /\ DashboardIdle
  /\ AppIdle

\* Time passes.
Tick ==
  /\ clock < StartClock + MaxTicks
  /\ clock' = clock + 1
  /\ UNCHANGED <<storage, tz, issued, last, tasks, kpis, lineChartData, appTasks, loading>>

GetAllTasks ==
  /\ last' = [op |-> "getAllTasks", arg |-> Undefined, outcome |-> "return",
              value |-> getAllTasks(storage), wrote |-> FALSE, pre |-> storage]
  /\ UNCHANGED <<storage, clock, tz, issued, tasks, kpis, lineChartData, appTasks, loading>>

\* The clock's readings inside one createTask call that starts at c: `new
\* Date()` in calculateDefaultEndTime, then Date.now() twice, each at most a
\* minute after the one before and none after hi.
CreateReadings(c, hi) ==
  { r \in [newDate : {c}, now : c..(c + 1), now2 : c..(c + 2)] :
      /\ r.now <= r.now2 /\ r.now2 <= r.now + 1 /\ r.now2 <= hi }

CreateTask ==
  /\ getAllTasks(storage).type = "array"
       => Len(getAllTasks(storage).items) < MaxTasks
  /\ \E task \in CreateInputs, uuid \in RandomUUID(issued),
        r \in CreateReadings(clock, StartClock + MaxTicks) :
       /\ storage' = createTask(storage, task, uuid, r.newDate, r.now, r.now2).storage
       /\ clock' = r.now2
       /\ issued' = issued \cup {uuid}
       /\ last' = Call("createTask", task,
                       createTask(storage, task, uuid, r.newDate, r.now, r.now2), storage)
  /\ UNCHANGED <<tz, tasks, kpis, lineChartData, appTasks, loading>>

UpdateTask ==
  /\ \E task \in UpdateInputs(storage) :
       /\ storage' = updateTask(storage, task, clock).storage
       /\ last' = Call("updateTask", task, updateTask(storage, task, clock), storage)
  /\ UNCHANGED <<clock, tz, issued, tasks, kpis, lineChartData, appTasks, loading>>

DeleteTask ==
  /\ \E taskId \in IdPool :
       /\ storage' = deleteTask(storage, taskId).storage
       /\ last' = Call("deleteTask", taskId, deleteTask(storage, taskId), storage)
  /\ UNCHANGED <<clock, tz, issued, tasks, kpis, lineChartData, appTasks, loading>>

Next == Tick \/ GetAllTasks \/ CreateTask \/ UpdateTask \/ DeleteTask

Spec == Init /\ [][Next]_vars

\* Arrays a caller can hand to saveAllTasks: any records, two with one id
\* among them.
SaveInputs ==
  LET t(i) ==
        [id |-> i, title |-> <<"a">>, date |-> TheDate, status |-> NOT_STARTED,
         startTime |-> FormatHM(9, 15), endTime |-> FormatHM(10, 15),
         subtasks |-> <<>>, createdAt |-> StartClock, updatedAt |-> StartClock]
  IN UNION {[1..n -> {t(UUID(1)), t(UUID(2))}] : n \in 0..MaxTasks}

\* saveAllTasks(tasks), called from outside the service: the item is
\* overwritten with the array as given.
SaveAllTasks ==
  /\ \E items \in SaveInputs :
       /\ storage' = saveAllTasks(items)
       /\ issued' = issued \cup {items[i].id : i \in 1..Len(items)}
       /\ last' = Call("saveAllTasks", items,
                       Returned(Undefined, saveAllTasks(items)), storage)
  /\ UNCHANGED <<clock, tz, tasks, kpis, lineChartData, appTasks, loading>>

\* Every member of taskService, saveAllTasks included.
NextService == Next \/ SaveAllTasks

SpecService == Init /\ [][NextService]_vars

-----------------------------------------------------------------------------
(* Dashboard: the kpis memo.                                               *)

\* The week `now` lies in: `startOfWeek` and `endOfWeek` as the code builds
\* them (23:59:59.999 is 23:59 at this model's resolution).
startOfWeek(now) ==
  setHoursMinutes(setDate(now, getDate(now) - getDay(now)), 0, 0)

endOfWeek(now) ==
  setHoursMinutes(setDate(startOfWeek(now), getDate(startOfWeek(now)) + 6), 23, 59)

todayStr(now) == ISODate(now)

\* `new Date(y, m - 1, d)` for the task's "YYYY-MM-DD".
tDate(task) ==
  LET ymd == Split(task.date, "-")
  IN NewLocalDate(Number(ymd[1]), Number(ymd[2]) - 1, Number(ymd[3]))

Statuses == {NOT_STARTED, IN_PROGRESS, COMPLETED}

\* NaN, which `++` gives for a value that is no number.
NaN == <<"NaN">>

\* The keys every object inherits from Object.prototype: the methods, and
\* the accessor __proto__, whose setter ignores a value that is no object.
ProtoAccessor == <<"__proto__">>
ObjectPrototypeMethods ==
  { <<"constructor">>, <<"hasOwnProperty">>, <<"isPrototypeOf">>,
    <<"propertyIsEnumerable">>, <<"toLocaleString">>, <<"toString">>,
    <<"valueOf">>, <<"__defineGetter__">>, <<"__defineSetter__">>,
    <<"__lookupGetter__">>, <<"__lookupSetter__">> }

\* `if (byStatus[status] !== undefined) byStatus[status]++`: the lookup also
\* finds what byStatus inherits. An own count goes up by one; an inherited
\* method makes `++` store NaN as an own key, which stays NaN from then on;
\* the assignment to __proto__ changes nothing; any other key reads as
\* undefined. The own keys outside Statuses are the ones that hold NaN.
CountStatus(byStatus, status) ==
  IF status \in Statuses THEN [byStatus EXCEPT ![status] = @ + 1]
  ELSE IF status \in DOMAIN byStatus THEN [byStatus EXCEPT ![status] = NaN]
  ELSE IF status \in ObjectPrototypeMethods THEN byStatus @@ (status :> NaN)
  ELSE IF status = ProtoAccessor THEN byStatus
  ELSE byStatus

\* One turn of tasks.forEach: the counters after `task`.
KpiStep(acc, task, now) ==
  [total |-> acc.total,
   byStatus |-> CountStatus(acc.byStatus, task.status),
   overdue |-> IF StrLess(task.date, todayStr(now)) /\ task.status # COMPLETED
               THEN acc.overdue + 1 ELSE acc.overdue,
   todayCount |-> IF task.date = todayStr(now)
                  THEN acc.todayCount + 1 ELSE acc.todayCount,
   weekCount |-> IF tDate(task) >= startOfWeek(now) /\ tDate(task) <= endOfWeek(now)
                 THEN acc.weekCount + 1 ELSE acc.weekCount]

RECURSIVE KpiLoop(_, _, _)
KpiLoop(acc, ts, now) ==
  IF ts = <<>> THEN acc ELSE KpiLoop(KpiStep(acc, Head(ts), now), Tail(ts), now)

\* The kpis memo for the prop `tasks`, with `new Date()` reading `now`.
Kpis(ts, now) ==
  KpiLoop([total |-> Len(ts), byStatus |-> [st \in Statuses |-> 0],
           overdue |-> 0, todayCount |-> 0, weekCount |-> 0], ts, now)

-----------------------------------------------------------------------------
(* Dashboard: the lineChartData memo.                                      *)

days == 14

MonthShort ==
  << <<"J","a","n">>, <<"F","e","b">>, <<"M","a","r">>, <<"A","p","r">>,
     <<"M","a","y">>, <<"J","u","n">>, <<"J","u","l">>, <<"A","u","g">>,
     <<"S","e","p">>, <<"O","c","t">>, <<"N","o","v">>, <<"D","e","c">> >>

\* d.toLocaleDateString('en-US', { month: 'short', day: 'numeric' })
displayDate(d) == MonthShort[getMonth(d) + 1] \o <<" ">> \o NumToString(getDate(d))

\* The entry the loop pushes for its counter i; tasks.filter(...).length is
\* the number of positions whose task passes.
TrendEntry(ts, now, i) ==
  LET d == setDate(now, getDate(now) - i)
      dateStr == ISODate(d)
      createdOn(t) == ISODate(t.createdAt) = dateStr
      completedOn(t) == t.date = dateStr /\ t.status = COMPLETED
  IN [date |-> displayDate(d),
      created |-> Cardinality({j \in 1..Len(ts) : createdOn(ts[j])}),
      completed |-> Cardinality({j \in 1..Len(ts) : completedOn(ts[j])})]

\* The lineChartData memo: the loop runs i = days - 1 down to 0.
LineChartData(ts, now) == [k \in 1..days |-> TrendEntry(ts, now, days - k)]

-----------------------------------------------------------------------------
(* The Dashboard's runs: it is mounted with a `tasks` prop at some instant *)
(* in some time zone, and rendering computes both memos.                   *)

\* Where the Dashboard's instants start in a time zone: the Saturday evening
\* (UTC) before the week that holds the zone's transition; for UTC the week
\* that runs from March into April.
Anchor(z) ==
  IF z.name \in {"America/New_York", "America/Havana"}
  THEN Instant(2026, 3, 7, 22, 0)
  ELSE Instant(2026, 3, 28, 22, 0)

\* `now` steps through a week and more, an hour later each day.
NowStep == MinutesPerDay + MinutesPerHour
NowValues(z) == {Anchor(z) + k * NowStep : k \in 0..MaxNowSteps}

\* The dates tasks are scheduled on: the anchor's Saturday through the Sunday
\* after the following week.
TaskDates(z) == {FormatYMD(CivilFromDays(Day(Anchor(z)) + j)) : j \in 0..8}

SeqsUpTo(S, n) == UNION {[1..m -> S] : m \in 0..n}

\* Tasks as the KPIs read them: any date, any status.
KpiTasks(z) ==
  { [id |-> UUID(1), title |-> <<"a">>, date |-> d, status |-> st,
     startTime |-> FormatHM(9, 0), endTime |-> FormatHM(10, 0), subtasks |-> <<>>,
     createdAt |-> Anchor(z), updatedAt |-> Anchor(z)]
      : d \in TaskDates(z), st \in Statuses }

\* Tasks as the trend reads them: created now, a day, 13 or 15 days ago,
\* scheduled today or 13 days ago.
TrendTasks(now) ==
  { [id |-> UUID(1), title |-> <<"a">>, date |-> d, status |-> st,
     startTime |-> FormatHM(9, 0), endTime |-> FormatHM(10, 0), subtasks |-> <<>>,
     createdAt |-> now - ago * MinutesPerDay, updatedAt |-> now]
      : d \in {LocalDate(now), LocalDate(now - 13 * MinutesPerDay)},
        st \in {IN_PROGRESS, COMPLETED}, ago \in {0, 1, 13, 15} }

\* A `now` in the last week of 1999 (Wednesday 29 December, 12:00 UTC), and
\* tasks dated in that week, on the Saturday before it, and on the same day
\* of the year 99.
CenturyNow == Instant(1999, 12, 29, 12, 0)
CenturyTasks ==
  { [id |-> UUID(1), title |-> <<"a">>, date |-> FormatYMD(d), status |-> st,
     startTime |-> FormatHM(9, 0), endTime |-> FormatHM(10, 0), subtasks |-> <<>>,
     createdAt |-> CenturyNow, updatedAt |-> CenturyNow]
      : d \in {<<1999, 12, 31>>, <<1999, 12, 25>>, <<99, 12, 31>>},
        st \in {NOT_STARTED, COMPLETED} }

StoreIdle == /\ storage = NoItem /\ issued = {} /\ last = NoCall

InitKpi ==
  /\ StoreIdle
  /\ AppIdle
  /\ tz \in TimeZones
  /\ \/ /\ clock \in NowValues(tz)
        /\ tasks \in SeqsUpTo(KpiTasks(tz), MaxDashTasks)
     \/ /\ clock = CenturyNow
        /\ tasks \in SeqsUpTo(CenturyTasks, MaxDashTasks)
  /\ kpis = NotRendered
  /\ lineChartData = <<>>

InitTrend ==
  /\ StoreIdle
  /\ AppIdle
  /\ tz \in TimeZones
  /\ clock \in NowValues(tz)
  /\ tasks \in SeqsUpTo(TrendTasks(clock), MaxDashTasks)
  /\ kpis = NotRendered
  /\ lineChartData = <<>>

\* What a render leaves in `last`: the clock's reading in each memo.
RenderCall(now, now2) ==
  [op |-> "render", arg |-> Undefined, outcome |-> "return",
   value |-> [kpis |-> now, lineChartData |-> now2], wrote |-> FALSE, pre |-> storage]

\* The Dashboard renders: both memos are computed from `tasks`, each with its
\* own `new Date()`, the kpis memo's first and the lineChartData memo's after
\* it.
Render ==
  /\ kpis = NotRendered
  /\ \E now2 \in clock..(clock + 1) :
       /\ kpis' = Kpis(tasks, clock)
       /\ lineChartData' = LineChartData(tasks, now2)
       /\ clock' = now2
       /\ last' = RenderCall(clock, now2)
  /\ UNCHANGED <<storage, tz, issued, tasks, appTasks, loading>>

NextDashboard == Render

SpecKpi == InitKpi /\ [][NextDashboard]_vars

SpecTrend == InitTrend /\ [][NextDashboard]_vars

-----------------------------------------------------------------------------
(* The store started on whatever localStorage holds under STORAGE_KEY.      *)

StoredSample ==
  [id |-> UUID(1), title |-> <<"a">>, date |-> TheDate, status |-> NOT_STARTED,
   startTime |-> FormatHM(9, 15), endTime |-> FormatHM(10, 15), subtasks |-> <<>>,
   createdAt |-> StartClock, updatedAt |-> StartClock]

\* No item, the empty string, a text that is no JSON, JSON texts that hold no
\* array (null, a number, an object), and JSON arrays of tasks.
StorageValues ==
  {NoItem, EmptyText, MalformedText, JsonText(JsNull), JsonText(JsNumber),
   JsonText(JsObject), JSONStringify(<<>>), JSONStringify(<<StoredSample>>)}

IdsIn(st) ==
  IF getAllTasks(st).type = "array"
  THEN {Get(getAllTasks(st).items[i], "id") : i \in 1..Len(getAllTasks(st).items)}
  ELSE {}

InitStorage ==
  /\ storage \in StorageValues
  /\ clock = StartClock
  /\ tz \in StoreTimeZones
  /\ issued = IdsIn(storage)
  /\ last = NoCall
  /\ DashboardIdle
  /\ AppIdle

SpecStorage == InitStorage /\ [][Next]_vars

-----------------------------------------------------------------------------
(* createTask on an empty store, for every start time of the day, on the   *)
(* Sunday of each time zone's transition and on the Saturday before it.    *)

EndTimeClocks(z) == {Anchor(z) - 6 * MinutesPerHour, Anchor(z) + 18 * MinutesPerHour}

InitEndTime ==
  /\ storage = NoItem
  /\ tz \in TimeZones
  /\ clock \in EndTimeClocks(tz)
  /\ issued = {}
  /\ last = NoCall
  /\ DashboardIdle
  /\ AppIdle

CreateOnEmpty(task) ==
  /\ storage = NoItem
  /\ \E uuid \in RandomUUID(issued), r \in CreateReadings(clock, clock + 2) :
       /\ storage' = createTask(storage, task, uuid, r.newDate, r.now, r.now2).storage
       /\ clock' = r.now2
       /\ issued' = issued \cup {uuid}
       /\ last' = Call("createTask", task,
                       createTask(storage, task, uuid, r.newDate, r.now, r.now2), storage)
  /\ UNCHANGED <<tz, tasks, kpis, lineChartData, appTasks, loading>>

BaseInput == [title |-> <<"a">>, date |-> TheDate, status |-> NOT_STARTED]

\* A start time HH:MM and no endTime.
CreateWithStartTime ==
  \E hh \in 0..23, mm \in 0..59 :
    CreateOnEmpty(Spread(BaseInput, [startTime |-> FormatHM(hh, mm)]))

\* No start time (empty, undefined or missing) and no endTime.
CreateWithoutStartTime ==
  \E task \in {BaseInput, Spread(BaseInput, [startTime |-> <<>>]),
               Spread(BaseInput, [startTime |-> Undefined, endTime |-> Undefined])} :
    CreateOnEmpty(task)

\* An endTime given.
CreateWithEndTime ==
  \E hh \in {1, 23} :
    \E task \in {BaseInput, Spread(BaseInput, [startTime |-> FormatHM(hh, 30)])} :
      CreateOnEmpty(Spread(task, [endTime |-> FormatHM(hh, 45)]))

NextEndTime == CreateWithStartTime \/ CreateWithoutStartTime \/ CreateWithEndTime

SpecEndTime == InitEndTime /\ [][NextEndTime]_vars

-----------------------------------------------------------------------------
(* App: the `tasks` state and the handlers that keep it.                   *)

\* What a state updater gives: the next state, or the error it throws.
NextState(v) == [outcome |-> "return", value |-> v]
UpdaterThrew(e) == [outcome |-> "throw", value |-> e]

\* `[newTask, ...prev]` for `[...prev, newTask]`.
PrependTask(prev, newTask) ==
  IF prev.type # "array" THEN UpdaterThrew(TypeError)
  ELSE NextState(Array(<<newTask>> \o prev.items))

\* prev => [...prev, newTask]
AppendTask(prev, newTask) ==
  IF prev.type # "array" THEN UpdaterThrew(TypeError)   \* prev is not iterable
  ELSE NextState(Array(Append(prev.items, newTask)))

\* prev => prev.map(t => t.id === savedTask.id ? savedTask : t)
MapSaved(prev, savedTask) ==
  IF prev.type # "array" THEN UpdaterThrew(TypeError)   \* prev.map is not a function
  ELSE NextState(Array([i \in 1..Len(prev.items) |->
                          IF Get(prev.items[i], "id") = Get(savedTask, "id")
                          THEN savedTask ELSE prev.items[i]]))

\* prev => prev.filter(t => t.id !== taskId)
FilterTasks(prev, taskId) ==
  IF prev.type # "array" THEN UpdaterThrew(TypeError)   \* prev.filter is not a function
  ELSE NextState(Array(FilterOutId(prev.items, taskId)))

\* The App once an updater has thrown: React rethrows the error while it
\* renders App, and with no error boundary around it the tree is unmounted
\* and its state is gone.
Unmounted == [type |-> "unmounted"]

\* setTasks(updater): the `tasks` state after it.
SetTasks(r) == IF r.outcome = "return" THEN r.value ELSE Unmounted

\* Whether the App is on screen, loaded, with handlers to call.
Mounted == ~loading /\ appTasks # Unmounted

\* The App starts on whatever localStorage holds under STORAGE_KEY.
InitApp ==
  /\ storage \in StorageValues
  /\ clock = StartClock
  /\ tz \in StoreTimeZones
  /\ issued = IdsIn(storage)
  /\ last = NoCall
  /\ AppIdle
  /\ DashboardIdle

\* The mount effect: loadTasks().
LoadTasks ==
  /\ loading
  /\ appTasks' = getAllTasks(storage)
  /\ loading' = FALSE
  /\ last' = [op |-> "getAllTasks", arg |-> Undefined, outcome |-> "return",
              value |-> getAllTasks(storage), wrote |-> FALSE, pre |-> storage]
  /\ UNCHANGED <<storage, clock, tz, issued, tasks, kpis, lineChartData>>

\* Time passes while the App is shown.
AppTick ==
  /\ Mounted
  /\ clock < StartClock + MaxTicks
  /\ clock' = clock + 1
  /\ UNCHANGED <<storage, tz, issued, last, appTasks, loading, tasks, kpis, lineChartData>>

\* handleCreateTask(task): when createTask throws, setTasks is not reached.
HandleCreateTask ==
  /\ Mounted
  /\ getAllTasks(storage).type = "array"
       => Len(getAllTasks(storage).items) < MaxTasks
  /\ \E task \in CreateInputs, uuid \in RandomUUID(issued),
        c \in CreateReadings(clock, StartClock + MaxTicks) :
       LET r == createTask(storage, task, uuid, c.newDate, c.now, c.now2)
       IN /\ storage' = r.storage
          /\ clock' = c.now2
          /\ issued' = issued \cup {uuid}
          /\ last' = Call("createTask", task, r, storage)
          /\ appTasks' = IF r.outcome = "return"
                         THEN SetTasks(AppendTask(appTasks, r.value)) ELSE appTasks
  /\ UNCHANGED <<tz, loading, tasks, kpis, lineChartData>>

\* handleUpdateTask(updatedTask): when updateTask throws, setTasks is not
\* reached.
HandleUpdateTask ==
  /\ Mounted
  /\ \E task \in UpdateInputs(storage) :
       LET r == updateTask(storage, task, clock)
       IN /\ storage' = r.storage
          /\ last' = Call("updateTask", task, r, storage)
          /\ appTasks' = IF r.outcome = "return"
                         THEN SetTasks(MapSaved(appTasks, r.value)) ELSE appTasks
  /\ UNCHANGED <<clock, tz, issued, loading, tasks, kpis, lineChartData>>

\* handleDeleteTask(taskId): when deleteTask throws, setTasks is not reached.
HandleDeleteTask ==
  /\ Mounted
  /\ \E taskId \in IdPool :
       LET r == deleteTask(storage, taskId)
       IN /\ storage' = r.storage
          /\ last' = Call("deleteTask", taskId, r, storage)
          /\ appTasks' = IF r.outcome = "return"
                         THEN SetTasks(FilterTasks(appTasks, taskId)) ELSE appTasks
  /\ UNCHANGED <<clock, tz, issued, loading, tasks, kpis, lineChartData>>

NextApp ==
  LoadTasks \/ AppTick \/ HandleCreateTask \/ HandleUpdateTask \/ HandleDeleteTask

SpecApp == InitApp /\ [][NextApp]_vars

-----------------------------------------------------------------------------
(* The claims about the store.                                             *)

\* The collection getAllTasks() returns now, and the one it returned before
\* the last call.
Stored == getAllTasks(storage).items
Before == getAllTasks(last.pre).items

HasId(items, id) == \E i \in 1..Len(items) : Get(items[i], "id") = id

\* C1: after any sequence of createTask, updateTask and deleteTask calls on a
\* store that started empty, the stored records have pairwise distinct ids,
\* each one an id randomUUID issued, and the id createTask returned is the id
\* of no record that was stored before the call.
C1_UniqueIds ==
  /\ \A i, j \in 1..Len(Stored) : i # j => Stored[i].id # Stored[j].id
  /\ \A i \in 1..Len(Stored) : Stored[i].id \in issued
  /\ (last.op = "createTask" /\ last.outcome = "return")
       => ~HasId(Before, last.value.id)

\* A record was created next to another one after a third had been deleted.
C1_Witness ==
  /\ last.op = "createTask"
  /\ Len(Before) = 1
  /\ Len(Stored) = 2
  /\ Cardinality(issued) = 3

\* C2: updateTask(task) on a collection where no record has task.id throws
\* the NotFound error, writes nothing and leaves the item as it was; where a
\* record has the id it returns.
C2_UpdateNotFound ==
  last.op = "updateTask" =>
    IF HasId(Before, last.arg.id)
    THEN last.outcome = "return"
    ELSE /\ last.outcome = "throw"
         /\ last.value = NotFoundError
         /\ ~last.wrote
         /\ storage = last.pre

\* updateTask threw on a collection that holds a record (with another id).
C2_Witness ==
  /\ last.op = "updateTask"
  /\ last.outcome = "throw"
  /\ Len(Before) >= 1
  /\ Stored = Before

\* C3: every stored task has createdAt <= updatedAt, after any sequence of
\* createTask, updateTask (with any Task value) and deleteTask calls, the
\* clock never going back.
C3_CreatedBeforeUpdated ==
  \A i \in 1..Len(Stored) : Stored[i].createdAt <= Stored[i].updatedAt

\* Whether the item is a JSON text that holds an array.
HoldsCollection(st) == st.syntax = "json" /\ st.value.type = "array"

\* C4: getAllTasks returns, never throws; what it returns is an array; it is
\* the empty array whenever the item is missing or is no JSON text of an
\* array; and the item is left as it was.
C4_GetAllTasksTotal ==
  last.op = "getAllTasks" =>
    /\ last.outcome = "return"
    /\ last.value.type = "array"
    /\ ~HoldsCollection(last.pre) => last.value = Array(<<>>)
    /\ storage = last.pre

\* C5: after createTask(input) returned, getAllTasks() gives the records
\* that were stored before, in their order, followed by one record that
\* agrees with the returned record on every field either of them has.
C5_CreateRoundTrip ==
  (last.op = "createTask" /\ last.outcome = "return") =>
    /\ Len(Stored) = Len(Before) + 1
    /\ SubSeq(Stored, 1, Len(Before)) = Before
    /\ \A f \in DOMAIN last.value \cup DOMAIN Stored[Len(Stored)] :
         Get(Stored[Len(Stored)], f) = Get(last.value, f)

\* A record was appended to a stored one, from an input with a key that holds
\* undefined (which the stored text leaves out).
C5_Witness ==
  /\ last.op = "createTask"
  /\ last.outcome = "return"
  /\ Len(Before) = 1
  /\ "description" \in DOMAIN last.value
  /\ "description" \notin DOMAIN Stored[Len(Stored)]

KeepsOtherIds(items, id) == SelectSeq(items, LAMBDA t : Get(t, "id") # id)

\* C6: deleteTask(id) returns, never throws; the collection afterwards is the
\* one before without the records whose id is `id`, the others in their
\* order; it is the same collection when no record had the id; and a second
\* deleteTask(id) returns and leaves that collection as it is.
C6_Delete ==
  last.op = "deleteTask" =>
    /\ last.outcome = "return"
    /\ Stored = KeepsOtherIds(Before, last.arg)
    /\ ~HasId(Before, last.arg) => Stored = Before
    /\ deleteTask(storage, last.arg).outcome = "return"
    /\ getAllTasks(deleteTask(storage, last.arg).storage).items = Stored

\* deleteTask removed one of two stored records.
C6_Witness ==
  /\ last.op = "deleteTask"
  /\ Len(Before) = 2
  /\ Len(Stored) = 1
  /\ HasId(Before, last.arg)

-----------------------------------------------------------------------------
(* The claims about the default end time and the Dashboard.                *)

\* "HH:MM" one hour on, as a time of day: ((HH + 1) mod 24):MM.
PlusOneHour(start) ==
  FormatHM((Number(SubSeq(start, 1, 2)) + 1) % 24, Number(SubSeq(start, 4, 5)))

\* The endTime createTask is to give for an input.
ExpectedEndTime(input) ==
  IF Get(input, "endTime") \notin {Undefined, <<>>} THEN input.endTime
  ELSE IF Get(input, "startTime") \in {Undefined, <<>>} THEN FormatHM(10, 0)
  ELSE PlusOneHour(input.startTime)

\* C7: the endTime createTask returns and stores is the input's endTime when
\* it gives one; else 10:00 when the input has no start time; else the start
\* time plus one hour as a time of day, ((HH + 1) mod 24):MM.
C7_DefaultEndTime ==
  (last.op = "createTask" /\ last.outcome = "return") =>
    /\ last.value.endTime = ExpectedEndTime(last.arg)
    /\ Stored[Len(Stored)].endTime = ExpectedEndTime(last.arg)

Rendered == kpis # NotRendered

\* The instant each memo read as `now` in the render.
KpisNow == last.value.kpis
TrendNow == last.value.lineChartData

\* C8: overdue counts the tasks dated before the local calendar day of `now`
\* and not COMPLETED; todayCount counts the tasks dated that day.
C8_OverdueAndToday ==
  Rendered =>
    LET today == LocalDate(KpisNow)
        isOverdue(t) == StrLess(t.date, today) /\ t.status # COMPLETED
        isToday(t) == t.date = today
    IN /\ kpis.overdue = Cardinality({i \in 1..Len(tasks) : isOverdue(tasks[i])})
       /\ kpis.todayCount = Cardinality({i \in 1..Len(tasks) : isToday(tasks[i])})

\* The day number of a "YYYY-MM-DD".
DayOfDate(date) ==
  DaysFromCivil(Number(SubSeq(date, 1, 4)), Number(SubSeq(date, 6, 7)),
                Number(SubSeq(date, 9, 10)))

\* The day number of the Sunday on or before the local day of `now`.
SundayOf(now) == Day(LocalTime(now)) - WeekDay(LocalTime(now))

\* C9: weekCount counts the tasks dated on one of the seven local calendar
\* days from the Sunday on or before the local day of `now` through the
\* Saturday after it: that Sunday and that Saturday count, the day before
\* and the day after do not.
C9_WeekCount ==
  Rendered =>
    LET inWeek(t) == /\ SundayOf(KpisNow) <= DayOfDate(t.date)
                     /\ DayOfDate(t.date) <= SundayOf(KpisNow) + 6
    IN kpis.weekCount = Cardinality({i \in 1..Len(tasks) : inWeek(tasks[i])})

\* The day number of an instant, as a local day or as a UTC day.
DayNumber(t, local) == IF local THEN Day(LocalTime(t)) ELSE Day(t)

\* The trend as the claim has it, for one reading of "calendar day" (local or
\* UTC): the k-th of 14 entries is for the day 14 - k days before the day of
\* `now`, and counts the tasks created that day and the COMPLETED tasks
\* dated that day.
TrendAsClaimed(local) ==
  /\ Len(lineChartData) = 14
  /\ \A k \in 1..14 :
       LET D == FormatYMD(CivilFromDays(DayNumber(TrendNow, local) - (14 - k)))
           createdOn(t) == FormatYMD(CivilFromDays(DayNumber(t.createdAt, local))) = D
           completedOn(t) == t.date = D /\ t.status = COMPLETED
       IN /\ lineChartData[k].created
               = Cardinality({i \in 1..Len(tasks) : createdOn(tasks[i])})
          /\ lineChartData[k].completed
               = Cardinality({i \in 1..Len(tasks) : completedOn(tasks[i])})

\* C10: the trend has 14 entries, one for each of the 14 consecutive calendar
\* days that end on the calendar day of `now`, oldest first, each with the
\* number of tasks created that day and the number of COMPLETED tasks dated
\* that day; a task created 13 days before `now` is counted in the first
\* entry. The days are read either all as local days or all as UTC days.
C10_Trend ==
  lineChartData # <<>> =>
    /\ TrendAsClaimed(TRUE) \/ TrendAsClaimed(FALSE)
    /\ \A i \in 1..Len(tasks) :
         tasks[i].createdAt = TrendNow - 13 * MinutesPerDay
           => lineChartData[1].created >= 1

-----------------------------------------------------------------------------
(* The claim about the App.                                                *)

\* Two records that agree on every field either of them has.
SameRecord(a, b) == \A f \in DOMAIN a \cup DOMAIN b : Get(a, f) = Get(b, f)

\* C11: once the App has loaded, and after any sequence of handleCreateTask,
\* handleUpdateTask and handleDeleteTask calls (those where updateTask throws
\* NotFound included), the App's `tasks` state holds the records that
\* getAllTasks() returns from storage, in the same order.
C11_AppMirrorsStorage ==
  ~loading =>
    /\ appTasks.type = getAllTasks(storage).type
    /\ appTasks.type = "array" =>
         /\ Len(appTasks.items) = Len(Stored)
         /\ \A i \in 1..Len(Stored) : SameRecord(appTasks.items[i], Stored[i])

\* handleUpdateTask has just thrown NotFound on an App that holds two
\* records, one created with a key that holds undefined and one that an
\* earlier handleUpdateTask saved.
C11_Witness ==
  /\ ~loading
  /\ last.op = "updateTask"
  /\ last.outcome = "throw"
  /\ last.value = NotFoundError
  /\ appTasks.type = "array"
  /\ Len(appTasks.items) = 2
  /\ \E i \in 1..2 : "description" \in DOMAIN appTasks.items[i]
  /\ \E i \in 1..2 : appTasks.items[i].status = COMPLETED

====
